---------------------------- MODULE Spec2Model ----------------------------
(***************************************************************************)
(* Model of the X API v2 client (src/x_fetcher/client.py) and of its      *)
(* command layer (src/main.py).                                           *)
(*                                                                         *)
(* Strings the code inspects character by character (handles, ids) are     *)
(* sequences of one-character strings; a reply text is the string "x"*n,   *)
(* represented by n, since the code only takes its length and truthiness.  *)
(* A JSON object is a record whose DOMAIN is its key set.                  *)
(* `http` is the sequence of calls the client makes to the HTTP library    *)
(* (requests.get / requests.post); the field `sent` of a call says whether *)
(* the library got past authentication and put it on the wire.             *)
(***************************************************************************)
EXTENDS Integers, Sequences, FiniteSets, TLC

VARIABLES
    env,        \* os.environ restricted to the variables the client reads
    clients,    \* one entry per XClient constructed: the bearer_token it got
    pc,         \* "idle" | "done": position of the (single) calling thread
    call,       \* the operation last invoked, with its arguments
    http,       \* calls to requests.get / requests.post made by that operation
    ret,        \* its outcome: [exc |-> exception or None, val |-> value]
    exitCode    \* process exit code of main(), None outside main()

vars == <<env, clients, pc, call, http, ret, exitCode>>

-----------------------------------------------------------------------------
(* Bounds and input sets *)

MaxTextLen == 281       \* longest reply text tried
MaxResultsHi == 101     \* largest max_results tried
MaxBelow == 2           \* how far below 1 max_results is tried
MaxCtor == 2            \* XClient constructions per run
MaxPosts == 2           \* longest timeline the backend returns

None == "None"          \* Python None for an optional string; an unset variable

\* Optional values of other types: Nothing is None, Just(v) is v
Nothing == <<>>
Just(v) == <<v>>
IsNone(o) == Len(o) = 0
Get(o) == o[1]

-----------------------------------------------------------------------------
(* Python helpers *)

\* truthiness of an optional string
Truthy(v) == v # None /\ v # ""

\* `a or b`
Or(a, b) == IF Truthy(a) THEN a ELSE b

Digits == {"0", "1", "2", "3", "4", "5", "6", "7", "8", "9"}

\* str.isdigit(): non-empty and every character a digit
isdigit(s) == Len(s) > 0 /\ \A i \in 1..Len(s) : s[i] \in Digits

\* str.lstrip("@")
RECURSIVE lstrip_at(_)
lstrip_at(s) == IF Len(s) > 0 /\ s[1] = "@" THEN lstrip_at(Tail(s)) ELSE s

\* ",".join(xs)
RECURSIVE join(_)
join(xs) ==
    IF Len(xs) = 0 THEN ""
    ELSE IF Len(xs) = 1 THEN xs[1]
    ELSE xs[1] \o "," \o join(Tail(xs))

\* dict with no keys
EmptyDict == [k \in {} |-> None]

HasKey(d, k) == k \in DOMAIN d

\* d.get("data") is truthy: key present and its value a non-empty list or object
GetDataTruthy(d) == HasKey(d, "data") /\ DOMAIN d.data # {}

-----------------------------------------------------------------------------
(* Exceptions and results *)

\* type is the Python class main() dispatches on; kind is the condition raised
Exc(type, kind, status) == [type |-> type, kind |-> kind, status |-> status]

NoExc == Exc("None", "none", 0)
ValidationError == Exc("ValueError", "validation", 0)
MissingBearer == Exc("ValueError", "missing_bearer", 0)
MissingOAuth1 == Exc("ValueError", "missing_oauth1", 0)
NotFound == Exc("ValueError", "not_found", 0)
JSONDecodeError == Exc("ValueError", "json", 0)
ApiError(status) == Exc("RuntimeError", "api", status)
TransportError == Exc("RequestException", "transport", 0)
SystemExit == Exc("SystemExit", "exit", 1)

\* result of a (possibly nested) call: the library calls it made, and how it ended
Raise(log, exc) == [log |-> log, exc |-> exc, val |-> Nothing]
Return(log, val) == [log |-> log, exc |-> NoExc, val |-> val]
Raised(r) == r.exc.type # "None"

-----------------------------------------------------------------------------
(* Backend responses *)

HttpResponse(status, content, body) ==
    [kind |-> "http", status |-> status, content |-> content, body |-> body]

\* connection failure or timeout: requests raises a RequestException
TransportFailure ==
    [kind |-> "transport", status |-> 0, content |-> "empty", body |-> EmptyDict]

\* what a request that was never sent got
NoResponse ==
    [kind |-> "none", status |-> 0, content |-> "empty", body |-> EmptyDict]

\* a JSON object without a data key (the platform's error envelope)
ErrorsBody == [errors |-> "e"]

Post(id) == [id |-> id]

ServerUserIds == {<<"7">>, <<"9", "9">>}
ServerPostIds == {<<"2", "0">>, <<"2", "1">>}

FailureResponses ==
    {TransportFailure, HttpResponse(201, "json", ErrorsBody),
     HttpResponse(404, "json", ErrorsBody), HttpResponse(200, "garbage", EmptyDict),
     HttpResponse(200, "json", ErrorsBody)}

LookupResponses ==
    FailureResponses \cup
    {HttpResponse(200, "json", [data |-> [id |-> u]]) : u \in ServerUserIds}

TweetResponses ==
    FailureResponses \cup
    {HttpResponse(200, "json", [data |-> Post(<<"2", "0">>)])}

Timelines == UNION {[1..n -> {Post(p) : p \in ServerPostIds}] : n \in 0..MaxPosts}

TimelineResponses ==
    FailureResponses \cup {HttpResponse(200, "json", [data |-> ps]) : ps \in Timelines}

CreateResponses ==
    {TransportFailure, HttpResponse(403, "json", ErrorsBody),
     HttpResponse(200, "garbage", EmptyDict), HttpResponse(201, "empty", EmptyDict),
     HttpResponse(200, "json", ErrorsBody)} \cup
    {HttpResponse(s, "json", [data |-> Post(<<"3", "0">>)]) : s \in {200, 201}}

-----------------------------------------------------------------------------
(* Credential resolver *)

BearerVars == {"X_BEARER_TOKEN", "BEARER_TOKEN"}
OAuthVars ==
    {"X_API_KEY", "TWITTER_API_KEY", "X_API_SECRET", "TWITTER_API_SECRET",
     "X_ACCESS_TOKEN", "TWITTER_ACCESS_TOKEN",
     "X_ACCESS_TOKEN_SECRET", "TWITTER_ACCESS_TOKEN_SECRET"}
EnvVars == BearerVars \cup OAuthVars

\* the auth callable handed to requests.get, run while the request is prepared
_bearer_auth(e) ==
    LET token == Or(e["X_BEARER_TOKEN"], e["BEARER_TOKEN"])
    IN  IF ~Truthy(token) THEN Raise(<<>>, MissingBearer) ELSE Return(<<>>, token)

\* mutant: `any` for `all`, so that partial credentials pass
_oauth1_any(e) ==
    LET key == Or(e["X_API_KEY"], e["TWITTER_API_KEY"])
        secret == Or(e["X_API_SECRET"], e["TWITTER_API_SECRET"])
        token == Or(e["X_ACCESS_TOKEN"], e["TWITTER_ACCESS_TOKEN"])
        token_secret == Or(e["X_ACCESS_TOKEN_SECRET"], e["TWITTER_ACCESS_TOKEN_SECRET"])
    IN  IF ~(Truthy(key) \/ Truthy(secret) \/ Truthy(token) \/ Truthy(token_secret))
        THEN Raise(<<>>, MissingOAuth1)
        ELSE Return(<<>>, <<key, secret, token, token_secret>>)

_oauth1(e) ==
    LET key == Or(e["X_API_KEY"], e["TWITTER_API_KEY"])
        secret == Or(e["X_API_SECRET"], e["TWITTER_API_SECRET"])
        token == Or(e["X_ACCESS_TOKEN"], e["TWITTER_ACCESS_TOKEN"])
        token_secret == Or(e["X_ACCESS_TOKEN_SECRET"], e["TWITTER_ACCESS_TOKEN_SECRET"])
    IN  IF ~(Truthy(key) /\ Truthy(secret) /\ Truthy(token) /\ Truthy(token_secret))
        THEN Raise(<<>>, MissingOAuth1)
        ELSE Return(<<>>, <<key, secret, token, token_secret>>)

-----------------------------------------------------------------------------
(* API client *)

\* one call to the HTTP library: the request, and the response it got if it was sent
Request(method, path, params, json, scheme, token, oauth, sent, resp) ==
    [method |-> method, path |-> path, params |-> params, json |-> json,
     auth |-> [scheme |-> scheme, token |-> token, oauth |-> oauth],
     sent |-> sent, resp |-> resp]

\* `v` bound to a name for the rest of the function
With(v, K(_)) == K(v)

\* an exception raised by a callee propagates; otherwise the caller goes on
Try(r, K(_)) == IF Raised(r) THEN r ELSE K(r)

\* the calls made before `r` come first in the log
After(log, r) == [r EXCEPT !.log = log \o @]

\* mutant: setdefault, which keeps a token that is already set
XClient_init_setdefault(e, bearer_token) ==
    IF Truthy(bearer_token) /\ e["X_BEARER_TOKEN"] = None
    THEN [e EXCEPT !["X_BEARER_TOKEN"] = bearer_token] ELSE e

\* XClient.__init__: a truthy bearer_token is written into the environment
XClient_init(e, bearer_token) ==
    IF Truthy(bearer_token) THEN [e EXCEPT !["X_BEARER_TOKEN"] = bearer_token] ELSE e

\* resp.status_code != 200 raises; otherwise resp.json()
read_response(req, resp) ==
    IF resp.kind = "transport" THEN Raise(<<req>>, TransportError)
    ELSE IF resp.status # 200 THEN Raise(<<req>>, ApiError(resp.status))
    ELSE IF resp.content # "json" THEN Raise(<<req>>, JSONDecodeError)
    ELSE Return(<<req>>, resp.body)

\* requests.get is called once; _bearer_auth runs inside it, before anything is sent
_get(e, path, params, resp) ==
    With(_bearer_auth(e), LAMBDA auth :
        IF Raised(auth)
        THEN Raise(<<Request("GET", path, params, Nothing, "bearer", None, <<>>,
                             FALSE, NoResponse)>>,
                   auth.exc)
        ELSE read_response(Request("GET", path, params, Nothing, "bearer", auth.val, <<>>,
                                   TRUE, resp),
                           resp))

\* resp.status_code not in (200, 201) raises; an empty body is {}
created_response(req, resp) ==
    IF resp.kind = "transport" THEN Raise(<<req>>, TransportError)
    ELSE IF resp.status \notin {200, 201} THEN Raise(<<req>>, ApiError(resp.status))
    ELSE IF resp.content = "empty" THEN Return(<<req>>, EmptyDict)
    ELSE IF resp.content # "json" THEN Raise(<<req>>, JSONDecodeError)
    ELSE Return(<<req>>, resp.body)

\* _oauth1() is an argument of requests.post: it is evaluated, and may raise,
\* before requests.post is called
_post(e, path, json, resp) ==
    Try(_oauth1(e), LAMBDA auth :
        created_response(Request("POST", path, Nothing, Just(json), "oauth1", None,
                                 auth.val, TRUE, resp),
                         resp))

\* tweet.fields, expansions and user.fields, the same on every request that has them
FieldParams ==
    [tweet_fields |-> "created_at,author_id,public_metrics,text,lang",
     expansions |-> "author_id",
     user_fields |-> "username,name,description,public_metrics"]

get_tweet(e, tweet_id, resp) == _get(e, <<"tweets", tweet_id>>, Just(FieldParams), resp)

\* mutant: a response without data is not checked; the handle is used as the id
get_user_id_unchecked(e, username, resp) ==
    Try(_get(e, <<"users", "by", "username", lstrip_at(username)>>, Nothing, resp),
        LAMBDA data :
            IF ~HasKey(data.val, "data") THEN Return(data.log, lstrip_at(username))
            ELSE Return(data.log, data.val.data.id))

get_user_id(e, username, resp) ==
    Try(_get(e, <<"users", "by", "username", lstrip_at(username)>>, Nothing, resp),
        LAMBDA data :
            IF ~HasKey(data.val, "data") THEN Raise(data.log, NotFound)
            ELSE Return(data.log, data.val.data.id))

\* min(max(1, max_results), 100)
Max(a, b) == IF a >= b THEN a ELSE b
Min(a, b) == IF a <= b THEN a ELSE b
PlatformMax == 100

\* mutant: the lower limit is 0
clamp_from_zero(max_results) == Min(Max(0, max_results), PlatformMax)

clamp(max_results) == Min(Max(1, max_results), PlatformMax)

\* a keyword argument left out takes the default of the signature
Default(arg, d) == IF IsNone(arg) THEN d ELSE Get(arg)

DefaultMaxResults == 10

\* mutant: the two flags are taken for each other
exclude_list_swapped(exclude_replies, exclude_retweets) ==
    SelectSeq(<<"replies", "retweets">>,
              LAMBDA x : (exclude_retweets /\ x = "replies")
                         \/ (exclude_replies /\ x = "retweets"))

exclude_list(exclude_replies, exclude_retweets) ==
    SelectSeq(<<"replies", "retweets">>,
              LAMBDA x : (exclude_replies /\ x = "replies")
                         \/ (exclude_retweets /\ x = "retweets"))

timeline_params(max_results, exclude_replies, exclude_retweets) ==
    With(exclude_list(exclude_replies, exclude_retweets), LAMBDA exclude :
        IF Len(exclude) > 0
        THEN [max_results |-> clamp(max_results),
              tweet_fields |-> FieldParams.tweet_fields,
              expansions |-> FieldParams.expansions,
              user_fields |-> FieldParams.user_fields,
              exclude |-> join(exclude)]
        ELSE [max_results |-> clamp(max_results),
              tweet_fields |-> FieldParams.tweet_fields,
              expansions |-> FieldParams.expansions,
              user_fields |-> FieldParams.user_fields])

\* mutant: every identifier is looked up
resolve_user_always(e, username_or_id, lookup) == get_user_id(e, username_or_id, lookup)

\* resolve the user id: the identifier itself if numeric, else a lookup
resolve_user(e, username_or_id, lookup) ==
    IF isdigit(username_or_id) THEN Return(<<>>, username_or_id)
    ELSE get_user_id(e, username_or_id, lookup)

\* max_results, exclude_replies, exclude_retweets are optional (Nothing: left out)
get_user_posts(e, username_or_id, max_results, exclude_replies, exclude_retweets, lookup, timeline) ==
    Try(resolve_user(e, username_or_id, lookup), LAMBDA user_id :
        After(user_id.log,
              _get(e, <<"users", user_id.val, "tweets">>,
                   Just(timeline_params(Default(max_results, DefaultMaxResults),
                                        Default(exclude_replies, FALSE),
                                        Default(exclude_retweets, FALSE))),
                   timeline)))

\* mutant: the first post is taken without checking that there is one
get_latest_post_unchecked(e, username_or_id, exclude_replies, exclude_retweets, lookup, timeline) ==
    Try(get_user_posts(e, username_or_id, Just(1),
                       Just(Default(exclude_replies, TRUE)),
                       Just(Default(exclude_retweets, TRUE)),
                       lookup, timeline),
        LAMBDA data :
            IF ~HasKey(data.val, "data") THEN Raise(data.log, Exc("KeyError", "key", 0))
            ELSE IF Len(data.val.data) = 0
                 THEN Raise(data.log, Exc("IndexError", "index", 0))
            ELSE Return(data.log, Just(data.val.data[1])))

\* returns Nothing (None) or Just(post)
get_latest_post(e, username_or_id, exclude_replies, exclude_retweets, lookup, timeline) ==
    Try(get_user_posts(e, username_or_id, Just(1),
                       Just(Default(exclude_replies, TRUE)),
                       Just(Default(exclude_retweets, TRUE)),
                       lookup, timeline),
        LAMBDA data :
            IF ~GetDataTruthy(data.val) THEN Return(data.log, Nothing)
            ELSE Return(data.log, Just(data.val.data[1])))

\* a text is "x"*n: the code reads only its length and its truthiness
Text(n) == [len |-> n]
len(text) == text.len

MaxReplyLen == 280

reply_payload(tweet_id, text) ==
    [text |-> text, reply |-> [in_reply_to_tweet_id |-> tweet_id]]

\* mutant: the credentials are resolved before the length is checked
reply_to_credentials_first(e, tweet_id, text, created) ==
    Try(_oauth1(e), LAMBDA auth :
        IF len(text) > MaxReplyLen THEN Raise(<<>>, ValidationError)
        ELSE _post(e, <<"tweets">>, reply_payload(tweet_id, text), created))

reply_to(e, tweet_id, text, created) ==
    IF len(text) > MaxReplyLen THEN Raise(<<>>, ValidationError)
    ELSE _post(e, <<"tweets">>, reply_payload(tweet_id, text), created)

-----------------------------------------------------------------------------
(* Command layer (main.py).  Printing is left out: it changes no state. *)

\* a command returns None
Finished(log) == Return(log, Nothing)

\* mutant: a response without data is printed as if it were a tweet
cmd_tweet_no_exit(e, tweet_id, raw, tweet) ==
    Try(get_tweet(e, tweet_id, tweet), LAMBDA data : Finished(data.log))

cmd_tweet(e, tweet_id, raw, tweet) ==
    Try(get_tweet(e, tweet_id, tweet), LAMBDA data :
        IF raw THEN Finished(data.log)
        ELSE IF ~HasKey(data.val, "data") THEN Raise(data.log, SystemExit)
        ELSE Finished(data.log))

\* reply_text is optional (Nothing: no --reply)
cmd_user(e, username, max_results, raw, reply_text, lookup, timeline, created) ==
    Try(get_user_posts(e, username, Just(max_results), Nothing, Nothing, lookup, timeline),
        LAMBDA data :
            IF raw THEN Finished(data.log)
            ELSE IF ~HasKey(data.val, "data") \/ Len(data.val.data) = 0
                 THEN Raise(data.log, SystemExit)
            ELSE IF ~IsNone(reply_text) /\ len(Get(reply_text)) > 0
                 THEN After(data.log,
                            Try(reply_to(e, data.val.data[1].id, Get(reply_text), created),
                                LAMBDA result : Finished(result.log)))
            ELSE Finished(data.log))

cmd_reply(e, tweet_id, text, raw, created) ==
    Try(reply_to(e, tweet_id, text, created), LAMBDA result : Finished(result.log))

cmd_reply_latest(e, username, text, raw, lookup, timeline, created) ==
    Try(get_latest_post(e, username, Nothing, Nothing, lookup, timeline), LAMBDA latest :
        IF IsNone(latest.val) THEN Raise(latest.log, SystemExit)
        ELSE After(latest.log, cmd_reply(e, Get(latest.val).id, text, raw, created)))

\* the parsed command line; an option not given is Nothing
TweetArgs(tweet_id, raw) ==
    [command |-> "tweet", tweet_id |-> tweet_id, raw |-> raw]
UserArgs(username, max, reply, raw) ==
    [command |-> "user", username |-> username, max |-> max, reply |-> reply, raw |-> raw]
ReplyArgs(user, tweet_id, text, raw) ==
    [command |-> "reply", user |-> user, tweet_id |-> tweet_id, text |-> text, raw |-> raw]

\* truthiness of an optional string option
Given(o) == ~IsNone(o) /\ Len(Get(o)) > 0

\* mutant: `if` for `elif`, so that --user and --tweet-id together reply twice
dispatch_both(e, args, lookup, fetched, created) ==
    IF args.command = "tweet" THEN cmd_tweet(e, args.tweet_id, args.raw, fetched)
    ELSE IF args.command = "user"
         THEN cmd_user(e, args.username, args.max, args.raw, args.reply,
                       lookup, fetched, created)
    ELSE IF Given(args.user)
         THEN Try(cmd_reply_latest(e, Get(args.user), args.text, args.raw,
                                   lookup, fetched, created),
                  LAMBDA first :
                      IF ~Given(args.tweet_id) THEN first
                      ELSE After(first.log, cmd_reply(e, Get(args.tweet_id), args.text,
                                                      args.raw, created)))
    ELSE IF Given(args.tweet_id)
         THEN cmd_reply(e, Get(args.tweet_id), args.text, args.raw, created)
    ELSE Raise(<<>>, SystemExit)

\* the body of the try block of main()
dispatch(e, args, lookup, fetched, created) ==
    IF args.command = "tweet" THEN cmd_tweet(e, args.tweet_id, args.raw, fetched)
    ELSE IF args.command = "user"
         THEN cmd_user(e, args.username, args.max, args.raw, args.reply,
                       lookup, fetched, created)
    ELSE IF Given(args.user)
         THEN cmd_reply_latest(e, Get(args.user), args.text, args.raw,
                               lookup, fetched, created)
    ELSE IF Given(args.tweet_id)
         THEN cmd_reply(e, Get(args.tweet_id), args.text, args.raw, created)
    ELSE Raise(<<>>, SystemExit)

\* how the process ends: ValueError and RuntimeError are caught and turned into
\* sys.exit(1); SystemExit carries its own code; any other exception leaves main()
\* uncaught and the interpreter exits with status 1
exit_code(result) ==
    IF ~Raised(result) THEN 0
    ELSE IF result.exc.type \in {"ValueError", "RuntimeError"} THEN 1
    ELSE IF result.exc.type = "SystemExit" THEN result.exc.status
    ELSE 1

\* main() after parse_args: XClient() is built without a token
main(e, args, lookup, fetched, created) ==
    dispatch(XClient_init(e, None), args, lookup, fetched, created)

-----------------------------------------------------------------------------
(* Inputs *)

\* handles and ids: empty, numeric, alphabetic, with leading "@", mixed
Identifiers ==
    {<<>>, <<"1", "2">>, <<"7">>, <<"a", "b">>, <<"@", "a", "b">>,
     <<"@", "@", "a">>, <<"1", "a">>, <<"@", "1">>}

FewIdentifiers == {<<"1", "2">>, <<"@", "a", "b">>}

TweetIds == {<<"2", "0">>, <<"5">>}

MaxResultsValues == ((1 - MaxBelow)..1) \cup {5, DefaultMaxResults} \cup (99..MaxResultsHi)

Texts == {Text(n) : n \in {0, 1} \cup (279..MaxTextLen)}

Optional(S) == {Nothing} \cup {Just(x) : x \in S}

Tokens == {None, "", "tokA", "tokB"}

OAuthValue(v) == "secret:" \o v

NoOAuth == [v \in OAuthVars |-> None]
FullOAuth == [v \in OAuthVars |-> IF v \in {"X_API_KEY", "TWITTER_API_SECRET",
                                           "X_ACCESS_TOKEN", "X_ACCESS_TOKEN_SECRET"}
                                  THEN OAuthValue(v) ELSE None]

\* every setting of the eight OAuth1 variables: unset, empty or set
OAuthEnvs ==
    {[v \in OAuthVars |-> IF f[v] = 0 THEN None ELSE IF f[v] = 1 THEN "" ELSE OAuthValue(v)] :
        f \in [OAuthVars -> 0..2]}

\* an OAuth1 set with one credential taken away (both of its names unset)
Without(oauth, names) == [v \in OAuthVars |-> IF v \in names THEN None ELSE oauth[v]]

Environment(x_bearer, bearer, oauth) ==
    [v \in EnvVars |-> IF v = "X_BEARER_TOKEN" THEN x_bearer
                       ELSE IF v = "BEARER_TOKEN" THEN bearer
                       ELSE oauth[v]]

\* a lookup response is drawn only when the identifier needs a lookup
LookupFor(identifier) == IF isdigit(identifier) THEN {NoResponse} ELSE LookupResponses

-----------------------------------------------------------------------------
(* State machine *)

NoCall == [op |-> "none"]

Start(e, cs) ==
    /\ env = e
    /\ clients = cs
    /\ pc = "idle"
    /\ call = NoCall
    /\ http = <<>>
    /\ ret = [exc |-> NoExc, val |-> Nothing]
    /\ exitCode = Nothing

\* an operation of the client runs to completion: the calling thread blocks
Complete(c, r) ==
    /\ pc' = "done"
    /\ call' = c
    /\ http' = r.log
    /\ ret' = [exc |-> r.exc, val |-> r.val]
    /\ exitCode' = Nothing
    /\ UNCHANGED <<env, clients>>

\* XClient(bearer_token)
Construct ==
    /\ pc = "idle"
    /\ Len(clients) < MaxCtor
    /\ \E bearer_token \in Tokens :
        /\ env' = XClient_init(env, bearer_token)
        /\ clients' = Append(clients, bearer_token)
    /\ UNCHANGED <<pc, call, http, ret, exitCode>>

GetTweet ==
    /\ pc = "idle"
    /\ \E c \in 1..Len(clients), id \in TweetIds, r \in TweetResponses :
        Complete([op |-> "get_tweet", client |-> c, tweet_id |-> id],
                 get_tweet(env, id, r))

GetUserId(ids) ==
    /\ pc = "idle"
    /\ \E c \in 1..Len(clients), id \in ids, r \in LookupResponses :
        Complete([op |-> "get_user_id", client |-> c, username |-> id],
                 get_user_id(env, id, r))

GetUserPosts(ids, maxes, flags) ==
    /\ pc = "idle"
    /\ \E c \in 1..Len(clients), id \in ids, m \in maxes, xr \in flags, xt \in flags :
        \E r1 \in LookupFor(id), r2 \in TimelineResponses :
            Complete([op |-> "get_user_posts", client |-> c, username_or_id |-> id,
                      max_results |-> m, exclude_replies |-> xr, exclude_retweets |-> xt],
                     get_user_posts(env, id, m, xr, xt, r1, r2))

GetLatestPost(ids, flags) ==
    /\ pc = "idle"
    /\ \E c \in 1..Len(clients), id \in ids, xr \in flags, xt \in flags :
        \E r1 \in LookupFor(id), r2 \in TimelineResponses :
            Complete([op |-> "get_latest_post", client |-> c, username_or_id |-> id,
                      exclude_replies |-> xr, exclude_retweets |-> xt],
                     get_latest_post(env, id, xr, xt, r1, r2))

ReplyTo ==
    /\ pc = "idle"
    /\ \E c \in 1..Len(clients), id \in TweetIds, text \in Texts, r \in CreateResponses :
        Complete([op |-> "reply_to", client |-> c, tweet_id |-> id, text |-> text],
                 reply_to(env, id, text, r))

\* the operation returns to its caller, which may call again
Finish ==
    /\ pc = "done"
    /\ pc' = "idle"
    /\ call' = NoCall
    /\ http' = <<>>
    /\ ret' = [exc |-> NoExc, val |-> Nothing]
    /\ UNCHANGED <<env, clients, exitCode>>

\* one run of the program: main() builds its client, runs one command and exits
Exit(args, result) ==
    /\ pc' = "exited"
    /\ clients' = <<None>>
    /\ env' = XClient_init(env, None)
    /\ call' = [op |-> "main", args |-> args]
    /\ http' = result.log
    /\ ret' = [exc |-> result.exc, val |-> result.val]
    /\ exitCode' = Just(exit_code(result))

Run(args, r1, r2, r3) ==
    /\ pc = "idle"
    /\ clients = <<>>
    /\ Exit(args, main(env, args, r1, r2, r3))

\* command lines tried: fewer values per argument than for the client alone
MainIdentifiers == {<<>>, <<"1", "2">>, <<"@", "a", "b">>}
MainMaxResults == {1 - MaxBelow, DefaultMaxResults, MaxResultsHi}
MainTexts == {Text(0), Text(1), Text(MaxTextLen)}

MainTweet ==
    /\ pc = "idle"
    /\ \E id \in TweetIds, raw \in BOOLEAN, r \in TweetResponses :
        Run(TweetArgs(id, raw), NoResponse, r, NoResponse)

MainUser ==
    /\ pc = "idle"
    /\ \E id \in MainIdentifiers \ {<<>>}, m \in MainMaxResults, reply \in Optional(MainTexts),
          raw \in BOOLEAN :
        \E r1 \in LookupFor(id), r2 \in TimelineResponses, r3 \in CreateResponses :
            Run(UserArgs(id, m, reply, raw), r1, r2, r3)

MainReply ==
    /\ pc = "idle"
    /\ \E user \in Optional(MainIdentifiers), id \in Optional(TweetIds \cup {<<>>}),
          text \in MainTexts, raw \in BOOLEAN :
        \E r1 \in LookupResponses, r2 \in TimelineResponses, r3 \in CreateResponses :
            Run(ReplyArgs(user, id, text, raw), r1, r2, r3)

-----------------------------------------------------------------------------
(* Specifications *)

\* read operations of one client, under every state of the bearer variables
Init ==
    \E x \in Tokens \cup {"tok0"}, b \in {None, "", "alias"} :
        Start(Environment(x, b, NoOAuth), <<None>>)

Next ==
    \/ GetTweet
    \/ GetUserId(Identifiers)
    \/ GetUserPosts(Identifiers, Optional(MaxResultsValues), Optional(BOOLEAN))
    \/ GetLatestPost(Identifiers, Optional(BOOLEAN))
    \/ Finish

Spec == Init /\ [][Next]_vars

\* reply_to under every state of the eight OAuth1 variables
InitReply == \E oauth \in OAuthEnvs : Start(Environment(None, None, oauth), <<None>>)

NextReply == ReplyTo \/ Finish

SpecReply == InitReply /\ [][NextReply]_vars

\* constructions interleaved with reads
InitCtor ==
    \E x \in {None, "tok0"}, b \in {None, "alias"} :
        Start(Environment(x, b, NoOAuth), <<>>)

NextCtor ==
    \/ Construct
    \/ GetTweet
    \/ GetUserId(FewIdentifiers)
    \/ GetUserPosts(FewIdentifiers, {Nothing}, {Nothing})
    \/ GetLatestPost(FewIdentifiers, {Nothing})
    \/ Finish

SpecCtor == InitCtor /\ [][NextCtor]_vars

\* one run of the command line program
InitMain ==
    \E x \in {None, "tok0"},
       oauth \in {FullOAuth, Without(FullOAuth, {"X_ACCESS_TOKEN", "TWITTER_ACCESS_TOKEN"})} :
        Start(Environment(x, None, oauth), <<>>)

NextMain == MainTweet \/ MainUser \/ MainReply

SpecMain == InitMain /\ [][NextMain]_vars

-----------------------------------------------------------------------------
(* Vocabulary of the properties: read off the calls made to the HTTP library *)

IsGet(x) == x.method = "GET"
IsPost(x) == x.method = "POST"
IsLookup(x) ==
    IsGet(x) /\ Len(x.path) = 4 /\ SubSeq(x.path, 1, 3) = <<"users", "by", "username">>
IsTimeline(x) ==
    IsGet(x) /\ Len(x.path) = 3 /\ x.path[1] = "users" /\ x.path[3] = "tweets"

\* the request was sent and answered 200 with a JSON body
Answered(x) ==
    x.sent /\ x.resp.kind = "http" /\ x.resp.status = 200 /\ x.resp.content = "json"

Count(log, P(_)) == Cardinality({i \in DOMAIN log : P(log[i])})

AllDigits(s) ==
    s # <<>> /\ \A i \in DOMAIN s : s[i] \in {"0", "1", "2", "3", "4", "5", "6", "7", "8", "9"}

Called(op) == pc = "done" /\ call.op = op

Unset(e, v) == e[v] \in {None, ""}

Credentials ==
    {{"X_API_KEY", "TWITTER_API_KEY"}, {"X_API_SECRET", "TWITTER_API_SECRET"},
     {"X_ACCESS_TOKEN", "TWITTER_ACCESS_TOKEN"},
     {"X_ACCESS_TOKEN_SECRET", "TWITTER_ACCESS_TOKEN_SECRET"}}

\* the credentials neither of whose names is set
MissingCredentials(e) == {c \in Credentials : \A v \in c : Unset(e, v)}

-----------------------------------------------------------------------------
(* C1 *)

\* C1: for every text longer than 280 characters and every post id, reply_to
\* fails with the validation error and makes no call to the HTTP library,
\* whether the OAuth1 credentials are present or missing.
C1_LongReplyRejected ==
    (Called("reply_to") /\ call.text.len > 280)
        => (ret.exc = ValidationError /\ http = <<>>)

\* a 281-character reply was rejected although all four credentials are set
C1_Witness ==
    /\ Called("reply_to")
    /\ call.text.len = 281
    /\ MissingCredentials(env) = {}
    /\ ret.exc = ValidationError

(* C2 *)

\* C2: if any of the four OAuth1 credentials is missing (both of its names unset
\* or empty), OAuth1 resolution fails with the missing-credential error, even when
\* the other three are present, and reply_to issues no POST in that state.
C2_MissingCredentialBlocksPost ==
    MissingCredentials(env) # {}
        => /\ _oauth1(env).exc = MissingOAuth1
           /\ Called("reply_to")
                => /\ http = <<>>
                   /\ ret.exc \in {MissingOAuth1, ValidationError}
                   /\ call.text.len <= 280 => ret.exc = MissingOAuth1

\* a postable reply failed for want of exactly one credential
C2_Witness ==
    /\ Called("reply_to")
    /\ call.text.len <= 280
    /\ Cardinality(MissingCredentials(env)) = 1
    /\ ret.exc = MissingOAuth1
    /\ http = <<>>

(* C3 *)

Exited == pc = "exited"

\* C3 as stated: one run of the program issues at most one GET and at most one
\* POST, with the GET first.  Violated: a handle costs a lookup and a timeline GET.
C3_AtMostOneGetOnePost ==
    Exited
        => /\ Count(http, IsGet) <= 1
           /\ Count(http, IsPost) <= 1
           /\ \A i, j \in DOMAIN http : (IsGet(http[i]) /\ IsPost(http[j])) => i < j

\* C3 amended: one run of the program issues at most two GETs and at most one
\* POST, every GET before the POST; two GETs only as the username lookup
\* followed by the timeline request of the id that lookup returned.
C3_AtMostTwoGetsOnePost ==
    Exited
        => /\ Count(http, IsGet) <= 2
           /\ Count(http, IsPost) <= 1
           /\ \A i, j \in DOMAIN http : (IsGet(http[i]) /\ IsPost(http[j])) => i < j
           /\ Count(http, IsGet) = 2
                => /\ IsLookup(http[1])
                   /\ Answered(http[1])
                   /\ IsTimeline(http[2])
                   /\ http[2].path[2] = http[1].resp.body.data.id

\* "reply to latest" for a handle: lookup, timeline, then the reply
C3_Witness ==
    /\ Exited
    /\ call.args.command = "reply"
    /\ Len(http) = 3
    /\ IsLookup(http[1]) /\ IsTimeline(http[2]) /\ IsPost(http[3])
    /\ http[3].sent

(* C4 *)

ClientErrorKinds ==
    {"validation", "missing_bearer", "missing_oauth1", "not_found", "api", "transport",
     "json"}

\* C4 as stated: exit code 1 whenever a client operation raised an error, exit
\* code 0 in every other case.  Violated: a response without post data exits 1.
C4_ExitOneOnlyOnError ==
    Exited => Get(exitCode) = (IF ret.exc.kind \in ClientErrorKinds THEN 1 ELSE 0)

\* the fetch the command prints from was answered, and carried no post
NoPostData ==
    /\ http # <<>>
    /\ LET x == http[Len(http)]
       IN  /\ IsGet(x) /\ ~IsLookup(x) /\ Answered(x)
           /\ \/ "data" \notin DOMAIN x.resp.body
              \/ (IsTimeline(x) /\ x.resp.body.data = <<>>)

IsFalsy(option) == option = Nothing \/ option = Just(<<>>)

\* the command prints posts: tweet or user without --raw, or reply --user
PrintsPosts ==
    \/ (call.args.command \in {"tweet", "user"} /\ ~call.args.raw)
    \/ (call.args.command = "reply" /\ ~IsFalsy(call.args.user))

SelectsNothing ==
    call.args.command = "reply" /\ IsFalsy(call.args.user) /\ IsFalsy(call.args.tweet_id)

\* C4 amended: the exit code is 1 whenever a client operation raised an error
\* (validation, missing credential, not found, API status, transport, undecodable
\* body), and also when a command that prints posts got an answer without post
\* data, and when reply is given neither --user nor --tweet-id; it is 0 otherwise.
C4_ExitCodes ==
    Exited
        => Get(exitCode) =
             (IF \/ ret.exc.kind \in ClientErrorKinds
                 \/ (PrintsPosts /\ NoPostData)
                 \/ SelectsNothing
              THEN 1 ELSE 0)

\* a tweet fetched without --raw whose answer has no data: no error raised, exit 1
C4_Witness ==
    /\ Exited
    /\ call.args.command = "tweet" /\ ~call.args.raw
    /\ NoPostData
    /\ ret.exc.kind \notin ClientErrorKinds
    /\ exitCode = Just(1)

(* C5 *)

\* C5: get_user_posts with a fully numeric identifier never issues a username
\* lookup: it makes exactly one request, to the timeline endpoint of that
\* identifier used as the user id (sent whenever a bearer token resolves).
C5_NumericSkipsLookup ==
    (Called("get_user_posts") /\ AllDigits(call.username_or_id))
        => /\ Len(http) = 1
           /\ ~IsLookup(http[1])
           /\ IsTimeline(http[1])
           /\ http[1].path = <<"users", call.username_or_id, "tweets">>
           /\ http[1].sent = (\E v \in BearerVars : ~Unset(env, v))

\* the timeline of a numeric identifier was requested and sent
C5_Witness ==
    /\ Called("get_user_posts")
    /\ AllDigits(call.username_or_id)
    /\ Len(http) = 1 /\ IsTimeline(http[1]) /\ http[1].sent

(* C6 *)

Clamped(m) == IF m < 1 THEN 1 ELSE IF m > 100 THEN 100 ELSE m

\* C6: get_user_posts with a non-numeric handle issues the username lookup first
\* and the timeline request second, the timeline request with the id the lookup
\* returned and the caller's clamped max_results; a lookup answered with a status
\* other than 200 (API error) or with a body without a data key (not found)
\* fails the operation, and the timeline request is never issued.
C6_LookupThenTimeline ==
    (Called("get_user_posts") /\ ~AllDigits(call.username_or_id))
        => /\ Len(http) \in {1, 2}
           /\ IsLookup(http[1])
           /\ \A i \in DOMAIN http : IsTimeline(http[i]) => i = 2
           /\ (http[1].sent /\ http[1].resp.kind = "http" /\ http[1].resp.status # 200)
                => (Len(http) = 1 /\ ret.exc = ApiError(http[1].resp.status))
           /\ (Answered(http[1]) /\ "data" \notin DOMAIN http[1].resp.body)
                => (Len(http) = 1 /\ ret.exc = NotFound)
           /\ (Answered(http[1]) /\ "data" \in DOMAIN http[1].resp.body)
                => /\ Len(http) = 2
                   /\ IsTimeline(http[2])
                   /\ http[2].path[2] = http[1].resp.body.data.id
                   /\ call.max_results # Nothing
                        => Get(http[2].params).max_results = Clamped(Get(call.max_results))
           /\ Len(http) = 2 => Answered(http[1]) /\ "data" \in DOMAIN http[1].resp.body

\* a handle with max_results = 5: lookup, then the timeline of the returned id
C6_Witness ==
    /\ Called("get_user_posts")
    /\ call.username_or_id = <<"@", "a", "b">>
    /\ call.max_results = Just(5)
    /\ Len(http) = 2
    /\ http[1].path = <<"users", "by", "username", <<"a", "b">>>>
    /\ http[2].path = <<"users", <<"9", "9">>, "tweets">>
    /\ Get(http[2].params).max_results = 5

(* C7 *)

\* C7: for every integer max_results passed to get_user_posts, the max_results
\* parameter of the timeline request is max_results itself when it lies in
\* [1, 100], 1 when it is below 1 and 100 when it is above 100; an out-of-range
\* value is never rejected: no validation error, and the request is still made.
C7_MaxResultsClamped ==
    (Called("get_user_posts") /\ call.max_results # Nothing)
        => LET m == Get(call.max_results)
           IN  /\ ret.exc.kind # "validation"
               /\ AllDigits(call.username_or_id) => \E i \in DOMAIN http : IsTimeline(http[i])
               /\ \A i \in DOMAIN http :
                    IsTimeline(http[i])
                        => /\ Get(http[i].params).max_results \in 1..100
                           /\ Get(http[i].params).max_results =
                                (IF m < 1 THEN 1 ELSE IF m > 100 THEN 100 ELSE m)

\* max_results = 101 went out as 100, and the request was answered
C7_Witness ==
    /\ Called("get_user_posts")
    /\ call.max_results = Just(101)
    /\ Len(http) = 1 /\ IsTimeline(http[1]) /\ Answered(http[1])
    /\ Get(http[1].params).max_results = 100
    /\ ret.exc = NoExc

(* C8 *)

\* the timeline request of the operation was made and answered
TimelineAnswered == http # <<>> /\ IsTimeline(http[Len(http)]) /\ Answered(http[Len(http)])

TimelineData ==
    LET body == http[Len(http)].resp.body
    IN  IF "data" \in DOMAIN body THEN body.data ELSE <<>>

\* C8: get_latest_post returns None, not an error, whenever the timeline request
\* succeeds with no data key or an empty data sequence; it returns the first
\* element of data otherwise; it raises only when the lookup or the timeline
\* request fails.
C8_LatestOrNone ==
    Called("get_latest_post")
        => /\ (TimelineAnswered /\ TimelineData = <<>>)
                => (ret.exc = NoExc /\ ret.val = Nothing)
           /\ (TimelineAnswered /\ TimelineData # <<>>)
                => (ret.exc = NoExc /\ ret.val = Just(TimelineData[1]))
           /\ ret.exc # NoExc => ~TimelineAnswered

\* an answered timeline without a data key gave None
C8_Witness ==
    /\ Called("get_latest_post")
    /\ TimelineAnswered
    /\ "data" \notin DOMAIN http[Len(http)].resp.body
    /\ ret.exc = NoExc
    /\ ret.val = Nothing

(* C9 *)

\* the exclude parameter of a request, Nothing when the request has none
ExcludeOf(x) ==
    IF "exclude" \in DOMAIN Get(x.params) THEN Just(Get(x.params).exclude) ELSE Nothing

ExcludeFor(exclude_replies, exclude_retweets) ==
    IF exclude_replies /\ exclude_retweets THEN Just("replies,retweets")
    ELSE IF exclude_replies THEN Just("replies")
    ELSE IF exclude_retweets THEN Just("retweets")
    ELSE Nothing

\* a flag as the caller gave it, or the stated default of the operation
Flag(given, default) == IF given = Nothing THEN default ELSE Get(given)

\* C9: the exclude parameter of the timeline request is omitted for
\* (false, false), "replies" for (true, false), "retweets" for (false, true) and
\* "replies,retweets" for (true, true); with no flags given get_user_posts sends
\* no exclude parameter and get_latest_post sends "replies,retweets"; the request
\* of get_latest_post has max_results = 1.
C9_ExcludeParameter ==
    /\ Called("get_user_posts")
         => \A i \in DOMAIN http :
              IsTimeline(http[i])
                  => ExcludeOf(http[i]) = ExcludeFor(Flag(call.exclude_replies, FALSE),
                                                     Flag(call.exclude_retweets, FALSE))
    /\ Called("get_latest_post")
         => \A i \in DOMAIN http :
              IsTimeline(http[i])
                  => /\ ExcludeOf(http[i]) = ExcludeFor(Flag(call.exclude_replies, TRUE),
                                                        Flag(call.exclude_retweets, TRUE))
                     /\ Get(http[i].params).max_results = 1

\* get_latest_post without flags sent exclude=replies,retweets
C9_Witness ==
    /\ Called("get_latest_post")
    /\ call.exclude_replies = Nothing /\ call.exclude_retweets = Nothing
    /\ Len(http) = 1 /\ IsTimeline(http[1]) /\ http[1].sent
    /\ ExcludeOf(http[1]) = Just("replies,retweets")

(* C10 *)

\* the token of the most recent construction that supplied a non-empty one
LastToken(cs) ==
    LET given == {i \in DOMAIN cs : cs[i] \notin {None, ""}}
    IN  IF given = {} THEN None
        ELSE cs[CHOOSE i \in given : \A j \in given : j <= i]

TokenIsProcessWide ==
    LastToken(clients) # None
        => /\ env["X_BEARER_TOKEN"] = LastToken(clients)
           /\ pc = "done"
                => \A i \in DOMAIN http :
                     IsGet(http[i])
                         => (http[i].sent /\ http[i].auth.token = LastToken(clients))

TokenlessConstructionKeepsEnv ==
    (Len(clients') = Len(clients) + 1 /\ clients'[Len(clients')] \in {None, ""})
        => env' = env

\* C10: the constructor's bearer token is process-wide state: after any sequence
\* of constructions, every read request of every client instance carries the
\* token of the most recent construction that supplied a non-empty token, whatever
\* BEARER_TOKEN and the earlier X_BEARER_TOKEN were; a construction with no token
\* or an empty token leaves the environment unchanged.
C10_BearerTokenProcessWide ==
    [](TokenIsProcessWide) /\ [][TokenlessConstructionKeepsEnv]_vars

\* a client built first, with its own token, sends the token of a later client,
\* not its own, not the alias
C10_Witness ==
    /\ pc = "done"
    /\ clients = <<"tokA", "tokB">>
    /\ call.client = 1
    /\ env["BEARER_TOKEN"] = "alias"
    /\ http # <<>>
    /\ http[Len(http)].auth.token = "tokB"

=============================================================================
